---- MODULE Spec2Model ----
(***************************************************************************)
(* Expense ledger and foreman-balance accounting of the Stroyka bot.       *)
(*                                                                         *)
(* The three tables (categories, expenses, foreman_transactions) live in   *)
(* PostgreSQL and are reached through one SQLAlchemy AsyncSession per      *)
(* handler invocation.  The engine is created without an isolation level   *)
(* (src/db/database.py:22), so every statement of a session reads the rows *)
(* committed at that moment plus the rows the session itself has flushed   *)
(* (READ COMMITTED).  A handler invocation is a request; its awaits are    *)
(* the points where other requests may run.                                *)
(*                                                                         *)
(* Conventions: an optional value (Python None) is a set with at most one  *)
(* element; a string is a sequence of one-character strings; amounts are   *)
(* integers.  Fields req, idx and by of the rows are history fields that   *)
(* record which request (and which item of it) wrote the row.              *)
(***************************************************************************)
EXTENDS Integers, Sequences, FiniteSets, TLC

\* ---------------------------------------------------------------- bounds
MaxReqs == 2        \* handler invocations in one behaviour
MaxItems == 3       \* items the classifier returns in one behaviour

Reqs == 1..MaxReqs
Users == {1, 2}

\* ---------------------------------------------------------------- strings
WS == " "

Lower1(c) == IF c = "A" THEN "a" ELSE IF c = "B" THEN "b" ELSE c

\* str.lower() / SQL lower()
Lower(s) == [k \in 1..Len(s) |-> Lower1(s[k])]

RECURSIVE LStrip(_)
LStrip(s) == IF s # <<>> /\ Head(s) = WS THEN LStrip(Tail(s)) ELSE s

RECURSIVE RStrip(_)
RStrip(s) ==
    IF s # <<>> /\ s[Len(s)] = WS THEN RStrip(SubSeq(s, 1, Len(s) - 1)) ELSE s

\* str.strip()
Strip(s) == RStrip(LStrip(s))

\* the comparison the data model asks for: whitespace-trimmed, case-insensitive
Norm(s) == Lower(Strip(s))

\* ---------------------------------------------------------------- sums
RECURSIVE SumAmount(_)
SumAmount(rows) ==
    IF rows = {} THEN 0
    ELSE LET x == CHOOSE y \in rows : TRUE
         IN  x.amount + SumAmount(rows \ {x})

\* SQL sum(): NULL over no rows
sql_sum(rows) == IF rows = {} THEN {} ELSE {SumAmount(rows)}

\* SQL coalesce(x, d)
coalesce(x, d) == IF x = {} THEN d ELSE CHOOSE v \in x : TRUE

\* ---------------------------------------------------------------- state
VARIABLES
    categories,            \* committed rows of table categories
    expenses,              \* committed rows of table expenses
    foreman_transactions,  \* committed rows of table foreman_transactions
    cat_seq,               \* next value of categories.id
    exp_seq,               \* next value of expenses.id
    tx_seq,                \* next value of foreman_transactions.id
    pc,                    \* pc[r]: the await the request r is suspended at
    op,                    \* op[r]: the inbound update the request handles
    loc,                   \* loc[r]: the handler's local variables
    pend,                  \* pend[r]: rows flushed by r's session, not committed
    res,                   \* res[r]: what the handler answered
    hist,                  \* hist[r]: history of r's reads (not program state)
    fsm                    \* fsm[u]: the conversation state of user u

vars == <<categories, expenses, foreman_transactions, cat_seq, exp_seq, tx_seq,
          pc, op, loc, pend, res, hist, fsm>>

tables == <<categories, expenses, foreman_transactions>>
seqs == <<cat_seq, exp_seq, tx_seq>>

\* ---------------------------------------------------------------- rows
Category(id, name, r) == [id |-> id, name |-> name, by |-> r]

Expense(id, category_id, amount, user, flag, r, k) ==
    [id |-> id, category_id |-> category_id, amount |-> amount,
     telegram_user_id |-> user, is_foreman_expense |-> flag,
     req |-> r, idx |-> k]

ForemanTransaction(id, amount, user, r, k) ==
    [id |-> id, amount |-> amount, telegram_user_id |-> user,
     req |-> r, idx |-> k]

ParsedExpense(type, category, amount) ==
    [type |-> type, category |-> category, amount |-> amount]

\* ---------------------------------------------------------------- crud.py
\* every operator takes the rows its session can see

get_category_by_name(cats, name) ==
    {c \in cats : Lower(c.name) = Lower(name)}

\* variant: the name is stored as given
NewCategoryName_raw(name) == name

\* the name get_or_create_category stores when the lookup misses
NewCategoryName(name) == Lower(Strip(name))

\* variant: the lookup is not scoped to the owner
get_expense_by_id_any(exps, expense_id, user_id) ==
    {e \in exps : e.id = expense_id}

get_expense_by_id(exps, expense_id, user_id) ==
    {e \in exps : e.id = expense_id /\ e.telegram_user_id = user_id}

\* variant: the sum is not filtered by user
get_total_expenses_all(exps, user_id) ==
    coalesce(sql_sum(exps), 0)

get_total_expenses(exps, user_id) ==
    coalesce(sql_sum({e \in exps : e.telegram_user_id = user_id}), 0)

\* ORDER BY Category.name on the characters the names are made of
Rank(c) == IF c = WS THEN 0 ELSE IF c = "a" THEN 1 ELSE IF c = "b" THEN 2 ELSE 3

RECURSIVE NameLess(_, _)
NameLess(s, t) ==
    IF t = <<>> THEN FALSE
    ELSE IF s = <<>> THEN TRUE
    ELSE IF Head(s) # Head(t) THEN Rank(Head(s)) < Rank(Head(t))
    ELSE NameLess(Tail(s), Tail(t))

RECURSIVE SortNames(_)
SortNames(names) ==
    IF names = {} THEN <<>>
    ELSE LET least == CHOOSE n \in names : \A o \in names \ {n} : NameLess(n, o)
         IN  <<least>> \o SortNames(names \ {least})

\* variant: every category is listed to every user
get_all_categories_all(cats, exps, user_id) ==
    SortNames({c.name : c \in cats})

\* SELECT Category WHERE id IN (the user's Expense.category_id) ORDER BY name;
\* the handlers use the names only
get_all_categories(cats, exps, user_id) ==
    LET expense_cats == {e.category_id : e \in {x \in exps : x.telegram_user_id = user_id}}
    IN  SortNames({c.name : c \in {x \in cats : x.id \in expense_cats}})

\* variant: the join is not filtered by user
get_expenses_summary_all(cats, exps, user_id) ==
    LET joined == {j \in cats \X exps : j[2].category_id = j[1].id}
        order == SortNames({j[1].name : j \in joined})
    IN  [k \in 1..Len(order) |->
            <<order[k], SumAmount({j[2] : j \in {x \in joined : x[1].name = order[k]}})>>]

\* SELECT Category.name, sum(Expense.amount) ... JOIN ... WHERE user
\* GROUP BY Category.name ORDER BY Category.name
get_expenses_summary(cats, exps, user_id) ==
    LET joined == {j \in cats \X exps : /\ j[2].category_id = j[1].id
                                        /\ j[2].telegram_user_id = user_id}
        order == SortNames({j[1].name : j \in joined})
    IN  [k \in 1..Len(order) |->
            <<order[k], SumAmount({j[2] : j \in {x \in joined : x[1].name = order[k]}})>>]

\* first statement of get_foreman_balance
total_given(ftxs, user_id) ==
    coalesce(sql_sum({t \in ftxs : t.telegram_user_id = user_id}), 0)

\* variant: only the expenses flagged as foreman-reported count as spent
total_spent_flagged(exps, user_id) ==
    coalesce(sql_sum({e \in exps : e.telegram_user_id = user_id
                                    /\ e.is_foreman_expense}), 0)

\* second statement of get_foreman_balance
total_spent(exps, user_id) ==
    coalesce(sql_sum({e \in exps : e.telegram_user_id = user_id}), 0)

get_foreman_balance(given, spent) ==
    [total_given |-> given, total_spent |-> spent, outstanding |-> given - spent]

\* ---------------------------------------------------------------- sessions
NoPending == [cats |-> {}, exps |-> {}, ftxs |-> {}, upd |-> {}, del |-> {}]

\* variant: the UPDATE also rewrites the foreman flag of the row
Updated_flag(e, upd) ==
    IF \E u \in upd : u.id = e.id
    THEN [e EXCEPT !.amount = (CHOOSE u \in upd : u.id = e.id).amount,
                   !.is_foreman_expense = TRUE]
    ELSE e

\* variant: the UPDATE is lost
Updated_none(e, upd) == e

\* an UPDATE of the amount flushed by a session, applied to a row
Updated(e, upd) ==
    IF \E u \in upd : u.id = e.id
    THEN [e EXCEPT !.amount = (CHOOSE u \in upd : u.id = e.id).amount]
    ELSE e

\* variant: flushed DELETEs are lost
ApplyExpenses_keep(exps, p) ==
    {Updated(e, p.upd) : e \in exps} \cup p.exps

\* committed rows after the session's flushed statements are applied
ApplyExpenses(exps, p) ==
    {Updated(e, p.upd) : e \in {x \in exps : x.id \notin p.del}} \cup p.exps

\* what the statements of request r see
VisCategories(r) == categories \cup pend[r].cats
VisExpenses(r) == ApplyExpenses(expenses, pend[r])
VisForeman(r) == foreman_transactions \cup pend[r].ftxs

\* ---------------------------------------------------------------- inputs
\* items parse_message can build from the classifier's JSON
Items ==
    {ParsedExpense("expense", {<<"a">>}, {2}),
     ParsedExpense("expense", {<<"a">>}, {-1}),
     ParsedExpense("foreman_give", {}, {3}),
     ParsedExpense("unknown", {}, {})}

\* items of one user's messages that mix expenses and advances
BatchItems ==
    {ParsedExpense("expense", {<<"a">>}, {2}),
     ParsedExpense("expense", {<<"a", " ">>}, {1}),
     ParsedExpense("foreman_give", {}, {3})}

\* expense items whose category names differ in case and whitespace only
CatItems ==
    {ParsedExpense("expense", {<<"a">>}, {1}),
     ParsedExpense("expense", {<<"A">>}, {1}),
     ParsedExpense("expense", {<<"a", " ">>}, {1})}

\* items of messages that mix recordable, incomplete and unknown items
MixedItems ==
    {ParsedExpense("expense", {<<"a">>}, {2}),
     ParsedExpense("expense", {<<"a", " ">>}, {1}),
     ParsedExpense("expense", {<<"a">>}, {}),
     ParsedExpense("foreman_give", {}, {3}),
     ParsedExpense("unknown", {}, {})}

\* expense items of one user's messages in two categories
AdderItems ==
    {ParsedExpense("expense", {<<"a">>}, {2}),
     ParsedExpense("expense", {<<"b">>}, {1})}

RECURSIVE SeqsUpTo(_, _)
SeqsUpTo(S, n) ==
    IF n <= 0 THEN {<<>>}
    ELSE LET shorter == SeqsUpTo(S, n - 1)
         IN  shorter \cup {Append(q, x) : q \in {t \in shorter : Len(t) = n - 1}, x \in S}

\* parse_message never returns an empty list (openai_service.py:132)
Answers(S, n) == SeqsUpTo(S, n) \ {<<>>}

\* texts of an amount typed by the user
Digit(c) == IF c = "0" THEN {0} ELSE IF c = "1" THEN {1} ELSE IF c = "2" THEN {2} ELSE {}
AmountTexts == {<<"2">>, <<"-", "1">>, <<"0">>, <<"x">>}

\* ---------------------------------------------------------------- handlers.py
RemoveSpaces(s) == SelectSeq(s, LAMBDA c : c # WS)

\* value of the leftmost maximal run of digits from position k on
RECURSIVE DigitRun(_, _, _)
DigitRun(s, k, acc) ==
    IF k <= Len(s) /\ Digit(s[k]) # {}
    THEN DigitRun(s, k + 1, 10 * acc + (CHOOSE d \in Digit(s[k]) : TRUE))
    ELSE acc

\* _parse_amount on texts without a decimal separator
_parse_amount(text) ==
    LET s == RemoveSpaces(text)
        starts == {k \in 1..Len(s) : Digit(s[k]) # {}}
    IN  IF starts = {} THEN {}
        ELSE LET first == CHOOSE k \in starts : \A j \in starts : k <= j
                 val == DigitRun(s, first, 0)
             IN  IF val > 0 THEN {val} ELSE {}

\* ---------------------------------------------------------------- openai_service.py
\* JSON values an entry may carry as its amount
JsonNull == [t |-> "null", n |-> 0, s |-> <<>>]
JsonNumber(n) == [t |-> "number", n |-> n, s |-> <<>>]
JsonString(str) == [t |-> "string", n |-> 0, s |-> str]

\* what the call of the chat-completions client may end in: an exception, a
\* text that is no JSON, or a JSON list of entries
ApiError == [kind |-> "error", data |-> <<>>]
NotJson == [kind |-> "text", data |-> <<>>]
Json(entries) == [kind |-> "json", data |-> entries]

ReplyEntries ==
    {[type |-> "expense", category |-> {<<"a">>}, amount |-> JsonNumber(2)],
     [type |-> "expense", category |-> {<<"a">>}, amount |-> JsonString(<<"2">>)],
     [type |-> "expense", category |-> {<<"a">>}, amount |-> JsonString(<<"x">>)],
     [type |-> "expense", category |-> {<<"a">>}, amount |-> JsonNull]}

Replies == {ApiError, NotJson} \cup {Json(es) : es \in SeqsUpTo(ReplyEntries, 1)}

\* float(): the number of a JSON number or of a string of digits, no value
\* where Python raises ValueError
float(x) ==
    IF x.t = "number" THEN {x.n}
    ELSE IF x.s # <<>> /\ \A k \in 1..Len(x.s) : Digit(x.s[k]) # {}
    THEN {DigitRun(x.s, 1, 0)}
    ELSE {}

\* the entries whose amount makes float() raise (openai_service.py:124)
BadAmount(entries) ==
    {k \in 1..Len(entries) : entries[k].amount # JsonNull /\ float(entries[k].amount) = {}}

\* variant: every failure is answered by the single unknown item
parse_message_safe(reply) ==
    IF reply.kind # "json" \/ reply.data = <<>> \/ BadAmount(reply.data) # {}
    THEN [raised |-> "none", items |-> <<ParsedExpense("unknown", {}, {})>>]
    ELSE [raised |-> "none",
          items |-> [k \in 1..Len(reply.data) |->
                        ParsedExpense(reply.data[k].type, reply.data[k].category,
                                      IF reply.data[k].amount = JsonNull THEN {}
                                      ELSE float(reply.data[k].amount))]]

\* parse_message: the exception that leaves it, or the list it returns
parse_message(reply) ==
    IF reply.kind = "error"
    THEN [raised |-> "APIError", items |-> <<>>]
    ELSE IF reply.kind = "text"
    THEN [raised |-> "none", items |-> <<ParsedExpense("unknown", {}, {})>>]
    ELSE IF BadAmount(reply.data) # {}
    THEN [raised |-> "ValueError", items |-> <<>>]
    ELSE IF reply.data = <<>>
    THEN [raised |-> "none", items |-> <<ParsedExpense("unknown", {}, {})>>]
    ELSE [raised |-> "none",
          items |-> [k \in 1..Len(reply.data) |->
                        ParsedExpense(reply.data[k].type, reply.data[k].category,
                                      IF reply.data[k].amount = JsonNull THEN {}
                                      ELSE float(reply.data[k].amount))]]

\* ---------------------------------------------------------------- handlers.py, intake
\* the item of the loop of handle_message that reaches the storage:
\* the others `continue` or set has_unknown without an await
Records(it) ==
    \/ it.type = "expense" /\ it.amount # {} /\ it.category # {}
    \/ it.type = "foreman_give" /\ it.amount # {}

has_unknown(items) ==
    \E k \in 1..Len(items) : items[k].type \notin {"expense", "foreman_give"}

RECURSIVE NextItem(_, _)
NextItem(items, i) ==
    IF i > Len(items) \/ Records(items[i]) THEN i ELSE NextItem(items, i + 1)

\* where handle_message suspends next, once the loop is at item i
LoopPc(items, i, replies) ==
    IF i <= Len(items)
    THEN IF items[i].type = "expense" THEN "get_category" ELSE "add_foreman"
    ELSE IF replies > 0 THEN "commit" ELSE "done"

\* variant: one answer for every batch that recorded nothing
NoReplyOutcome_same(items) == "nothing_parsed"

\* the branch of handlers.py:504-522 taken without a commit
NoReplyOutcome(items) ==
    IF has_unknown(items) THEN "nothing_understood" ELSE "nothing_parsed"

\* ---------------------------------------------------------------- handlers.py, settlement
\* the category settle_description files an item without category under
\* (stands for the text of handlers.py:183)
Uncategorised == <<"-">>

\* settle_description records every item that has an amount (handlers.py:186)
SettleRecords(it) == it.amount # {}

RECURSIVE NextSettleItem(_, _)
NextSettleItem(items, i) ==
    IF i > Len(items) \/ SettleRecords(items[i]) THEN i ELSE NextSettleItem(items, i + 1)

\* where settle_description suspends next, once its loop is at item i
SettleLoopPc(items, i, replies) ==
    IF i <= Len(items) THEN "get_category"
    ELSE IF replies > 0 THEN "commit" ELSE "done"

\* ---------------------------------------------------------------- both loops
\* kind is "message" for handle_message, "settle_report" for settle_description
NextOf(kind, items, i) ==
    IF kind = "settle_report" THEN NextSettleItem(items, i) ELSE NextItem(items, i)

PcOf(kind, items, i, replies) ==
    IF kind = "settle_report" THEN SettleLoopPc(items, i, replies)
    ELSE LoopPc(items, i, replies)

QuietOutcome(kind, items) ==
    IF kind = "settle_report" THEN "amount_not_understood" ELSE NoReplyOutcome(items)

\* the name handed to get_or_create_category (handlers.py:183, 475)
category_name(kind, it) ==
    IF kind = "settle_report" /\ it.category \subseteq {<<>>} THEN Uncategorised
    ELSE CHOOSE n \in it.category : TRUE

NoOp == [kind |-> "none", user |-> 0, items |-> <<>>, expense_id |-> 0, amount |-> {},
         text |-> <<>>]
NoLoc == [i |-> 0, cat |-> {}, replies |-> 0, given |-> 0, old |-> {}]
NoRes == [outcome |-> "none", err |-> "none", balance |-> {}, summary |-> {}, total |-> {},
          categories |-> {}]
NoHist == [quiet |-> TRUE, seen |-> {}, present |-> {}, committed |-> FALSE,
           reply |-> {}]

\* FSMContext of a user outside every multi-step flow (state None, no data)
NoState == [state |-> "none", edit_expense_id |-> {}]

\* texts of a message: a registered command, another text that starts with
\* "/", or free text
Commands == {"start", "help", "report", "categories", "foreman", "settle",
             "expenses", "edit", "delete"}

\* the handler a message is dispatched to: the first one, in the order of
\* registration, whose filters match; a handler without a state filter
\* matches in every state.  settle_description is registered after
\* cmd_settle, process_new_amount after cmd_delete, handle_message last.
Route(state, text) ==
    IF text \in {"start", "help", "report", "categories", "foreman", "settle"} THEN text
    ELSE IF state = "waiting_for_description" THEN "settle_description"
    ELSE IF text \in {"expenses", "edit", "delete"} THEN text
    ELSE IF state = "waiting_new_amount" THEN "process_new_amount"
    ELSE "handle_message"

Open(r) == pc[r] \notin {"idle", "done", "failed"}

\* the awaits at which the handler's AsyncSession has run a statement since
\* it was opened or last committed: it holds a pooled connection with a
\* transaction open.  handle_message runs get_all_categories before it
\* awaits parse_message inside the same `async with` (handlers.py:461-465).
InTransaction(r) ==
    \/ pc[r] \in {"classify", "get_category", "create_category", "add_expense",
                  "add_foreman", "flush", "commit", "total", "bal_spent"}
    \/ pc[r] = "bal_given" /\ op[r].kind = "report"

\* users are numbered in the order their first update arrives
Known == {op[q].user : q \in Reqs}
From(users) == {u \in users : u - 1 \in Known \cup {0}}

\* requests are numbered in the order they arrive
Arrives(r) == pc[r] = "idle" /\ \A q \in 1..(r - 1) : pc[q] # "idle"

Init ==
    /\ categories = {} /\ expenses = {} /\ foreman_transactions = {}
    /\ cat_seq = 1 /\ exp_seq = 1 /\ tx_seq = 1
    /\ pc = [r \in Reqs |-> "idle"]
    /\ op = [r \in Reqs |-> NoOp]
    /\ loc = [r \in Reqs |-> NoLoc]
    /\ pend = [r \in Reqs |-> NoPending]
    /\ res = [r \in Reqs |-> NoRes]
    /\ hist = [r \in Reqs |-> NoHist]
    /\ fsm = [u \in Users |-> NoState]

\* handle_message, up to the await of parse_message (handlers.py:449-465).
\* It is registered last: a message of a user inside a multi-step flow goes
\* to the handler of that flow.
StartMessage(r, users) ==
    /\ Arrives(r)
    /\ \E u \in From(users) :
        /\ fsm[u].state = "none"
        /\ op' = [op EXCEPT ![r] = [NoOp EXCEPT !.kind = "message", !.user = u]]
    /\ pc' = [pc EXCEPT ![r] = "classify"]
    /\ UNCHANGED <<tables, seqs, loc, pend, res, hist, fsm>>

\* the loop of the handler runs from its start to its first storage call
LoopStart(r, items) ==
    LET i == NextOf(op[r].kind, items, 1)
        next == PcOf(op[r].kind, items, i, 0)
    IN  /\ op' = [op EXCEPT ![r].items = items]
        /\ loc' = [loc EXCEPT ![r].i = i]
        /\ pc' = [pc EXCEPT ![r] = next]
        /\ res' = IF next = "done"
                  THEN [res EXCEPT ![r].outcome = QuietOutcome(op[r].kind, items)]
                  ELSE res

\* parse_message returns its list; the loop runs to its first storage call
Classified(r, answers) ==
    /\ pc[r] = "classify"
    /\ \E items \in answers : LoopStart(r, items)
    /\ UNCHANGED <<tables, seqs, pend, hist, fsm>>

\* ---------------------------------------------------------------- transactions
\* variant: a commit that inserted expenses replaces the table by them
Apply_last_writer(tabs, p) ==
    <<tabs[1] \cup p.cats,
      IF p.exps = {} THEN ApplyExpenses(tabs[2], p) ELSE p.exps,
      tabs[3] \cup p.ftxs>>

\* session.commit(): the flushed statements become visible to every session
Apply(tabs, p) ==
    <<tabs[1] \cup p.cats, ApplyExpenses(tabs[2], p), tabs[3] \cup p.ftxs>>

\* variant: a session that closes keeps what it flushed
session_close_keeps(tabs, p) == Apply(tabs, p)

\* leaving `async with async_session()` without a commit rolls back
session_close(tabs, p) == tabs

\* the ledger figures of user u in the committed tables tabs
Figures(tabs, u) ==
    <<SumAmount({t \in tabs[3] : t.telegram_user_id = u}),
      SumAmount({e \in tabs[2] : e.telegram_user_id = u})>>

\* history: the committed figures each balance read in flight could have seen
Observe(tabs, writer) ==
    [r \in Reqs |->
        IF r # writer /\ pc[r] = "bal_spent"
        THEN [hist[r] EXCEPT !.quiet = FALSE,
                             !.seen = @ \cup {Figures(tabs, op[r].user)}]
        ELSE IF r = writer THEN [hist[r] EXCEPT !.committed = TRUE]
        ELSE hist[r]]

\* an exception leaves the handler: the session closes, nothing is answered
Raise(r, err) ==
    /\ pc' = [pc EXCEPT ![r] = "failed"]
    /\ res' = [res EXCEPT ![r].err = err]
    /\ pend' = [pend EXCEPT ![r] = NoPending]
    /\ categories' = session_close(tables, pend[r])[1]
    /\ expenses' = session_close(tables, pend[r])[2]
    /\ foreman_transactions' = session_close(tables, pend[r])[3]

\* history: the ids of the categories whose name is the given one under the
\* whitespace-trimmed, case-insensitive comparison
SameCategory(cats, name) == {c.id : c \in {x \in cats : Norm(x.name) = Norm(name)}}

\* a storage call, the classifier call or the commit fails at its await
Fail(r) ==
    /\ Open(r)
    /\ Raise(r, "StorageError")
    /\ UNCHANGED <<seqs, op, fsm, loc, hist>>

\* await parse_message(...) of handle_message ends (handlers.py:465): the
\* client answered or raised, and parse_message returned or raised
ParseMessage(r, replies) ==
    /\ pc[r] = "classify"
    /\ \E reply \in replies :
        LET out == parse_message(reply)
        IN  /\ hist' = [hist EXCEPT ![r].reply = {reply}]
            /\ IF out.raised # "none"
               THEN /\ Raise(r, out.raised)
                    /\ UNCHANGED <<op, loc>>
               ELSE /\ LoopStart(r, out.items)
                    /\ UNCHANGED <<tables, pend>>
    /\ UNCHANGED <<seqs, fsm>>

\* get_or_create_category: the lookup (crud.py:30, handlers.py:475)
GetCategory(r) ==
    /\ pc[r] = "get_category"
    /\ LET it == op[r].items[loc[r].i]
           name == category_name(op[r].kind, it)
           found == get_category_by_name(VisCategories(r), name)
       IN  IF Cardinality(found) > 1
           THEN /\ Raise(r, "MultipleResultsFound")
                /\ UNCHANGED loc
           ELSE /\ loc' = [loc EXCEPT ![r].cat = {c.id : c \in found}]
                /\ pc' = [pc EXCEPT ![r] =
                            IF found = {} THEN "create_category" ELSE "add_expense"]
                /\ UNCHANGED <<tables, pend, res>>
       /\ hist' = [hist EXCEPT ![r].present = SameCategory(VisCategories(r), name)]
    /\ UNCHANGED <<seqs, op, fsm>>

\* get_or_create_category: the INSERT after a miss (crud.py:31-34).  The
\* unique index on categories.name makes the INSERT wait for a session that
\* has inserted the same name and not yet ended.
CreateCategory(r) ==
    /\ pc[r] = "create_category"
    /\ LET it == op[r].items[loc[r].i]
           name == NewCategoryName(category_name(op[r].kind, it))
       IN  /\ \A o \in Reqs \ {r} : \A c \in pend[o].cats : c.name # name
           /\ IF \E c \in VisCategories(r) : c.name = name
              THEN /\ Raise(r, "IntegrityError")
                   /\ UNCHANGED loc
              ELSE /\ pend' = [pend EXCEPT ![r].cats = @ \cup {Category(cat_seq, name, r)}]
                   /\ loc' = [loc EXCEPT ![r].cat = {cat_seq}]
                   /\ pc' = [pc EXCEPT ![r] = "add_expense"]
                   /\ UNCHANGED <<tables, res>>
    /\ cat_seq' = cat_seq + 1
    /\ UNCHANGED <<exp_seq, tx_seq, op, fsm, hist>>

\* crud.add_expense and the rest of the loop body (handlers.py:476-485,
\* 190-197); neither handler passes is_foreman_expense
AddExpense(r) ==
    /\ pc[r] = "add_expense"
    /\ LET items == op[r].items
           it == items[loc[r].i]
           row == Expense(exp_seq, CHOOSE c \in loc[r].cat : TRUE,
                          CHOOSE a \in it.amount : TRUE, op[r].user, FALSE,
                          r, loc[r].i)
           i == NextOf(op[r].kind, items, loc[r].i + 1)
       IN  /\ pend' = [pend EXCEPT ![r].exps = @ \cup {row}]
           /\ loc' = [loc EXCEPT ![r].i = i, ![r].replies = @ + 1]
           /\ pc' = [pc EXCEPT ![r] = PcOf(op[r].kind, items, i, loc[r].replies + 1)]
    /\ exp_seq' = exp_seq + 1
    /\ UNCHANGED <<tables, cat_seq, tx_seq, op, fsm, res, hist>>

\* crud.add_foreman_transaction and the rest of the loop body (handlers.py:491-499)
AddForemanTransaction(r) ==
    /\ pc[r] = "add_foreman"
    /\ LET items == op[r].items
           it == items[loc[r].i]
           row == ForemanTransaction(tx_seq, CHOOSE a \in it.amount : TRUE,
                                     op[r].user, r, loc[r].i)
           i == NextItem(items, loc[r].i + 1)
       IN  /\ pend' = [pend EXCEPT ![r].ftxs = @ \cup {row}]
           /\ loc' = [loc EXCEPT ![r].i = i, ![r].replies = @ + 1]
           /\ pc' = [pc EXCEPT ![r] = LoopPc(items, i, loc[r].replies + 1)]
    /\ tx_seq' = tx_seq + 1
    /\ UNCHANGED <<tables, cat_seq, exp_seq, op, fsm, res, hist>>

\* await session.commit() of every writing handler
Commit(r) ==
    /\ pc[r] = "commit"
    /\ LET after == Apply(tables, pend[r])
       IN  /\ categories' = after[1]
           /\ expenses' = after[2]
           /\ foreman_transactions' = after[3]
           /\ hist' = Observe(after, r)
    /\ pend' = [pend EXCEPT ![r] = NoPending]
    /\ pc' = [pc EXCEPT ![r] = "bal_given"]
    /\ UNCHANGED <<seqs, op, fsm, loc, res>>

\* get_foreman_balance: SELECT sum(ForemanTransaction.amount) (crud.py:137-142)
BalGiven(r) ==
    /\ pc[r] = "bal_given"
    /\ loc' = [loc EXCEPT ![r].given = total_given(VisForeman(r), op[r].user)]
    /\ hist' = [hist EXCEPT ![r].quiet = TRUE,
                           ![r].seen = {Figures(tables, op[r].user)}]
    /\ pc' = [pc EXCEPT ![r] = "bal_spent"]
    /\ UNCHANGED <<tables, seqs, op, fsm, pend, res>>

\* the reply that follows the balance read of each handler
Answered(kind) ==
    IF kind = "message" THEN "recorded"
    ELSE IF kind \in {"edit", "new_amount"} THEN "updated"
    ELSE IF kind = "delete" THEN "deleted"
    ELSE IF kind = "report" THEN "report"
    ELSE IF kind = "settle_report" THEN "settled"
    ELSE "balance"

\* get_foreman_balance: SELECT sum(Expense.amount), and the answer
\* (crud.py:144-155); cmd_settle then asks for the report when money is
\* outstanding (handlers.py:146-150)
BalSpent(r) ==
    /\ pc[r] = "bal_spent"
    /\ LET balance == get_foreman_balance(loc[r].given,
                                          total_spent(VisExpenses(r), op[r].user))
           asks == op[r].kind = "settle" /\ balance.outstanding > 0
       IN  /\ res' = [res EXCEPT
                 ![r].balance = {balance},
                 ![r].outcome = IF op[r].kind = "report" /\ res[r].summary = {<<>>}
                                THEN "no_expenses"
                                ELSE IF op[r].kind = "settle"
                                THEN IF asks THEN "ask_report" ELSE "all_spent"
                                ELSE Answered(op[r].kind)]
           /\ fsm' = IF asks
                     THEN [fsm EXCEPT ![op[r].user].state = "waiting_for_description"]
                     ELSE fsm
    /\ pc' = [pc EXCEPT ![r] = "done"]
    /\ UNCHANGED <<tables, seqs, op, loc, pend, hist>>

\* cmd_foreman (handlers.py:115-119)
StartForeman(r, users) ==
    /\ Arrives(r)
    /\ \E u \in From(users) :
        op' = [op EXCEPT ![r] = [NoOp EXCEPT !.kind = "foreman", !.user = u]]
    /\ pc' = [pc EXCEPT ![r] = "bal_given"]
    /\ UNCHANGED <<tables, seqs, loc, pend, res, hist, fsm>>

\* cmd_settle up to its balance read (handlers.py:140-144)
StartSettle(r, users) ==
    /\ Arrives(r)
    /\ \E u \in From(users) :
        op' = [op EXCEPT ![r] = [NoOp EXCEPT !.kind = "settle", !.user = u]]
    /\ pc' = [pc EXCEPT ![r] = "bal_given"]
    /\ UNCHANGED <<tables, seqs, loc, pend, res, hist, fsm>>

\* settle_description, up to the await of parse_message (handlers.py:160-179):
\* the next message of a user who was asked for the report
StartSettleReport(r, users) ==
    /\ Arrives(r)
    /\ \E u \in From(users) :
        /\ fsm[u].state = "waiting_for_description"
        /\ fsm' = [fsm EXCEPT ![u] = NoState]
        /\ op' = [op EXCEPT ![r] = [NoOp EXCEPT !.kind = "settle_report", !.user = u]]
    /\ pc' = [pc EXCEPT ![r] = "classify"]
    /\ UNCHANGED <<tables, seqs, loc, pend, res, hist>>

\* cmd_report (handlers.py:73-76)
StartReport(r, users) ==
    /\ Arrives(r)
    /\ \E u \in From(users) :
        op' = [op EXCEPT ![r] = [NoOp EXCEPT !.kind = "report", !.user = u]]
    /\ pc' = [pc EXCEPT ![r] = "summary"]
    /\ UNCHANGED <<tables, seqs, loc, pend, res, hist, fsm>>

\* await crud.get_expenses_summary (handlers.py:77)
Summary(r) ==
    /\ pc[r] = "summary"
    /\ res' = [res EXCEPT ![r].summary =
                 {get_expenses_summary(VisCategories(r), VisExpenses(r), op[r].user)}]
    /\ pc' = [pc EXCEPT ![r] = "total"]
    /\ UNCHANGED <<tables, seqs, op, fsm, loc, pend, hist>>

\* await crud.get_total_expenses (handlers.py:78)
Total(r) ==
    /\ pc[r] = "total"
    /\ res' = [res EXCEPT ![r].total = {get_total_expenses(VisExpenses(r), op[r].user)}]
    /\ pc' = [pc EXCEPT ![r] = "bal_given"]
    /\ UNCHANGED <<tables, seqs, op, fsm, loc, pend, hist>>

\* the row lock another session holds on expense id until it ends
Locked(r, id) ==
    \E o \in Reqs \ {r} : id \in pend[o].del \/ (\E u \in pend[o].upd : u.id = id)

\* cmd_edit up to the session (handlers.py:261-279); process_new_amount
\* reaches the same calls with the id kept in the conversation state
StartEdit(r, users, texts) ==
    /\ Arrives(r)
    /\ \E u \in From(users), id \in 1..exp_seq, t \in texts :
        LET new_amount == _parse_amount(t)
        IN  /\ Route(fsm[u].state, "edit") = "edit"
            /\ op' = [op EXCEPT ![r] = [NoOp EXCEPT !.kind = "edit", !.user = u,
                                          !.expense_id = id, !.amount = new_amount]]
            /\ IF new_amount = {}
               THEN /\ pc' = [pc EXCEPT ![r] = "done"]
                    /\ res' = [res EXCEPT ![r].outcome = "bad_amount"]
               ELSE /\ pc' = [pc EXCEPT ![r] = "select"]
                    /\ UNCHANGED res
    /\ UNCHANGED <<tables, seqs, loc, pend, hist, fsm>>

\* cmd_delete / cb_confirm_delete up to the session (handlers.py:299-312, 419-423)
StartDelete(r, users) ==
    /\ Arrives(r)
    /\ \E u \in From(users), id \in 1..exp_seq :
        op' = [op EXCEPT ![r] = [NoOp EXCEPT !.kind = "delete", !.user = u,
                                   !.expense_id = id]]
    /\ pc' = [pc EXCEPT ![r] = "select"]
    /\ UNCHANGED <<tables, seqs, loc, pend, res, hist, fsm>>

\* get_expense_by_id inside update_expense_amount / delete_expense
\* (crud.py:196-198, 208-210) and the not-found answer of the handler
Select(r) ==
    /\ pc[r] = "select"
    /\ LET found == get_expense_by_id(VisExpenses(r), op[r].expense_id, op[r].user)
       IN  IF found = {}
           THEN /\ pc' = [pc EXCEPT ![r] = "done"]
                /\ res' = [res EXCEPT ![r].outcome = "not_found"]
                /\ UNCHANGED loc
           ELSE /\ pc' = [pc EXCEPT ![r] = "flush"]
                /\ loc' = [loc EXCEPT ![r].old = {e.amount : e \in found}]
                /\ UNCHANGED res
    /\ UNCHANGED <<tables, seqs, op, fsm, pend, hist>>

\* update_expense_amount: exp.amount = new_amount; flush (crud.py:199-200).
\* The unit of work emits no UPDATE when the value is the one it loaded, and
\* raises StaleDataError when its UPDATE matches no row.
FlushEdit(r) ==
    /\ pc[r] = "flush" /\ op[r].kind \in {"edit", "new_amount"}
    /\ IF op[r].amount = loc[r].old
       THEN /\ pc' = [pc EXCEPT ![r] = "commit"]
            /\ UNCHANGED <<tables, pend, res>>
       ELSE /\ ~Locked(r, op[r].expense_id)
            /\ IF \E e \in expenses : e.id = op[r].expense_id
               THEN /\ pend' = [pend EXCEPT ![r].upd = @ \cup
                                 {[id |-> op[r].expense_id,
                                   amount |-> CHOOSE a \in op[r].amount : TRUE]}]
                    /\ pc' = [pc EXCEPT ![r] = "commit"]
                    /\ UNCHANGED <<tables, res>>
               ELSE Raise(r, "StaleDataError")
    /\ UNCHANGED <<seqs, op, fsm, loc, hist>>

\* delete_expense: session.delete(exp); flush (crud.py:211-213).  A DELETE
\* that matches no row only warns (the mapper has no version counter).
FlushDelete(r) ==
    /\ pc[r] = "flush" /\ op[r].kind = "delete"
    /\ ~Locked(r, op[r].expense_id)
    /\ pend' = [pend EXCEPT ![r].del = @ \cup {op[r].expense_id}]
    /\ pc' = [pc EXCEPT ![r] = "commit"]
    /\ UNCHANGED <<tables, seqs, op, fsm, loc, res, hist>>

\* cmd_categories (handlers.py:99-102)
StartCategories(r, users) ==
    /\ Arrives(r)
    /\ \E u \in From(users) :
        op' = [op EXCEPT ![r] = [NoOp EXCEPT !.kind = "categories", !.user = u]]
    /\ pc' = [pc EXCEPT ![r] = "categories"]
    /\ UNCHANGED <<tables, seqs, loc, pend, res, hist, fsm>>

\* await crud.get_all_categories, and the answer (handlers.py:103-110)
Categories(r) ==
    /\ pc[r] = "categories"
    /\ LET cats == get_all_categories(VisCategories(r), VisExpenses(r), op[r].user)
       IN  res' = [res EXCEPT ![r].categories = {cats},
                              ![r].outcome = IF cats = <<>> THEN "no_categories"
                                             ELSE "categories"]
    /\ pc' = [pc EXCEPT ![r] = "done"]
    /\ UNCHANGED <<tables, seqs, op, fsm, loc, pend, hist>>

\* cb_edit_expense up to its session (handlers.py:328-334): the edit button
\* under an expense listed by /expenses; a callback query is no message
StartEditButton(r, users) ==
    /\ Arrives(r)
    /\ \E u \in From(users), id \in 1..exp_seq :
        op' = [op EXCEPT ![r] = [NoOp EXCEPT !.kind = "edit_button", !.user = u,
                                   !.expense_id = id]]
    /\ pc' = [pc EXCEPT ![r] = "lookup"]
    /\ UNCHANGED <<tables, seqs, loc, pend, res, hist, fsm>>

\* await crud.get_expense_by_id, and the rest of cb_edit_expense
\* (handlers.py:334-347)
EditButton(r) ==
    /\ pc[r] = "lookup"
    /\ LET u == op[r].user
           found == get_expense_by_id(VisExpenses(r), op[r].expense_id, u)
       IN  IF found = {}
           THEN /\ res' = [res EXCEPT ![r].outcome = "not_found"]
                /\ UNCHANGED fsm
           ELSE /\ res' = [res EXCEPT ![r].outcome = "ask_amount"]
                /\ fsm' = [fsm EXCEPT ![u] = [state |-> "waiting_new_amount",
                                              edit_expense_id |-> {op[r].expense_id}]]
    /\ pc' = [pc EXCEPT ![r] = "done"]
    /\ UNCHANGED <<tables, seqs, op, loc, pend, hist>>

\* process_new_amount up to its session (handlers.py:352-369): a message of
\* a user who was asked for the new amount
StartNewAmount(r, users, texts) ==
    /\ Arrives(r)
    /\ \E u \in From(users), t \in texts :
        LET new_amount == _parse_amount(t)
            slash == t # <<>> /\ Head(t) = "/"
        IN  /\ fsm[u].state = "waiting_new_amount"
            /\ op' = [op EXCEPT ![r] =
                        [NoOp EXCEPT !.kind = "new_amount", !.user = u, !.text = t,
                                     !.expense_id =
                                        IF slash \/ new_amount = {} THEN 0
                                        ELSE CHOOSE id \in fsm[u].edit_expense_id : TRUE,
                                     !.amount = IF slash THEN {} ELSE new_amount]]
            /\ IF slash
               THEN /\ fsm' = [fsm EXCEPT ![u] = NoState]
                    /\ pc' = [pc EXCEPT ![r] = "done"]
                    /\ res' = [res EXCEPT ![r].outcome = "edit_cancelled"]
               ELSE IF new_amount = {}
               THEN /\ pc' = [pc EXCEPT ![r] = "done"]
                    /\ res' = [res EXCEPT ![r].outcome = "bad_amount"]
                    /\ UNCHANGED fsm
               ELSE /\ fsm' = [fsm EXCEPT ![u] = NoState]
                    /\ pc' = [pc EXCEPT ![r] = "select"]
                    /\ UNCHANGED res
    /\ UNCHANGED <<tables, seqs, loc, pend, hist>>

\* ---------------------------------------------------------------- main.py
\* Base.metadata.drop_all: no table is left
drop_all(tabs) == <<{}, {}, {}>>

\* Base.metadata.create_all: the tables that are missing are created empty
create_all(tabs) == tabs

\* variant: startup keeps the tables it finds
on_startup_create_only(tabs) == create_all(tabs)

\* on_startup (main.py:25-30)
on_startup(tabs) == create_all(drop_all(tabs))

\* the process ends and is started again (main.py:33-44): the handlers in
\* flight end with their sessions, the conversation states kept in memory
\* are gone, and on_startup runs before the first update is polled; the
\* sequences go with the tables they belong to
Restart ==
    /\ LET after == on_startup(tables)
       IN  /\ categories' = after[1]
           /\ expenses' = after[2]
           /\ foreman_transactions' = after[3]
           /\ cat_seq' = IF after[1] = {} THEN 1 ELSE cat_seq
           /\ exp_seq' = IF after[2] = {} THEN 1 ELSE exp_seq
           /\ tx_seq' = IF after[3] = {} THEN 1 ELSE tx_seq
    /\ pc' = [r \in Reqs |-> IF Open(r) THEN "failed" ELSE pc[r]]
    /\ res' = [r \in Reqs |-> IF Open(r) THEN [res[r] EXCEPT !.err = "ProcessExit"]
                               ELSE res[r]]
    /\ pend' = [r \in Reqs |-> NoPending]
    /\ fsm' = [u \in Users |-> NoState]
    /\ UNCHANGED <<op, loc, hist>>

\* ---------------------------------------------------------------- behaviours
\* handle_message
Intake(r, users, answers) ==
    \/ StartMessage(r, users)
    \/ Classified(r, answers)
    \/ GetCategory(r)
    \/ CreateCategory(r)
    \/ AddExpense(r)

\* the tail shared by the writing handlers, and the storage failures
Closing(r) ==
    \/ Commit(r)
    \/ BalGiven(r)
    \/ BalSpent(r)
    \/ Fail(r)

\* cmd_edit, cmd_delete and the inline buttons
Manage(r, users, texts) ==
    \/ StartEdit(r, users, texts)
    \/ StartDelete(r, users)
    \/ Select(r)
    \/ FlushEdit(r)
    \/ FlushDelete(r)

\* intake, balance query, edit and delete, one item per message
Next ==
    \E r \in Reqs :
        \/ Intake(r, Users, Answers(Items, 1))
        \/ AddForemanTransaction(r)
        \/ StartForeman(r, Users)
        \/ Manage(r, Users, AmountTexts)
        \/ Closing(r)

Spec == Init /\ [][Next]_vars

\* items classified so far, over all messages
RECURSIVE Used(_)
Used(r) == IF r = 0 THEN 0 ELSE Len(op[r].items) + Used(r - 1)

\* the answers parse_message may still give
Batches == Answers(BatchItems, MaxItems - Used(MaxReqs))

\* concurrent messages of several items, and concurrent balance queries
NextBatch ==
    \E r \in Reqs :
        \/ Intake(r, Users, Batches)
        \/ AddForemanTransaction(r)
        \/ StartForeman(r, Users)
        \/ Closing(r)

SpecBatch == Init /\ [][NextBatch]_vars

\* concurrent messages of several items from one user
NextWriters ==
    \E r \in Reqs :
        \/ Intake(r, {1}, Batches)
        \/ AddForemanTransaction(r)
        \/ Closing(r)

SpecWriters == Init /\ [][NextWriters]_vars

\* no handler is between its first and its last await
Quiet == \A o \in Reqs : ~Open(o)

\* messages of several items, handled one after the other
NextSeq ==
    \E r \in Reqs :
        \/ Quiet /\ StartMessage(r, Users)
        \/ Classified(r, Batches)
        \/ GetCategory(r)
        \/ CreateCategory(r)
        \/ AddExpense(r)
        \/ AddForemanTransaction(r)
        \/ Closing(r)

SpecSeq == Init /\ [][NextSeq]_vars

\* concurrent messages of one item that name one category in several spellings
NextCat ==
    \E r \in Reqs :
        \/ Intake(r, Users, Answers(CatItems, 1))
        \/ Closing(r)

SpecCat == Init /\ [][NextCat]_vars

\* the answers parse_message may still give, of every kind of item
MixedBatches == Answers(MixedItems, MaxItems - Used(MaxReqs))

\* messages of one user that mix every kind of item, one after the other
NextMixed ==
    \E r \in Reqs :
        \/ Quiet /\ StartMessage(r, {1})
        \/ Classified(r, MixedBatches)
        \/ GetCategory(r)
        \/ CreateCategory(r)
        \/ AddExpense(r)
        \/ AddForemanTransaction(r)
        \/ Closing(r)

SpecMixed == Init /\ [][NextMixed]_vars

\* the answers parse_message may still give, expenses only
AdderBatches == Answers(AdderItems, MaxItems - Used(MaxReqs))

\* concurrent messages of one user, with the reply of the classifier's
\* service and its parsing
NextParse ==
    \E r \in Reqs :
        \/ StartMessage(r, {1})
        \/ ParseMessage(r, Replies)
        \/ GetCategory(r)
        \/ CreateCategory(r)
        \/ AddExpense(r)
        \/ Closing(r)

SpecParse == Init /\ [][NextParse]_vars

\* the ledger after user 1's message "advanced 3 to the foreman" was
\* handled, before the requests of the behaviour
InitAdvanced ==
    /\ categories = {} /\ expenses = {}
    /\ foreman_transactions = {ForemanTransaction(1, 3, 1, 0, 1)}
    /\ cat_seq = 1 /\ exp_seq = 1 /\ tx_seq = 2
    /\ pc = [r \in Reqs |-> "idle"]
    /\ op = [r \in Reqs |-> NoOp]
    /\ loc = [r \in Reqs |-> NoLoc]
    /\ pend = [r \in Reqs |-> NoPending]
    /\ res = [r \in Reqs |-> NoRes]
    /\ hist = [r \in Reqs |-> NoHist]
    /\ fsm = [u \in Users |-> NoState]

\* items a message or a settlement report may be classified into
SettleItems ==
    {ParsedExpense("expense", {<<"a">>}, {2}),
     ParsedExpense("expense", {}, {1}),
     ParsedExpense("foreman_give", {}, {3}),
     ParsedExpense("unknown", {}, {1}),
     ParsedExpense("unknown", {}, {})}

\* /settle, the report that follows it, and free-form messages
NextSettle ==
    \E r \in Reqs :
        \/ StartSettle(r, Users)
        \/ StartSettleReport(r, Users)
        \/ Intake(r, Users, Answers(SettleItems, 1))
        \/ AddForemanTransaction(r)
        \/ Closing(r)

SpecSettle == InitAdvanced /\ [][NextSettle]_vars

\* cmd_report
Report(r, users) ==
    \/ StartReport(r, users)
    \/ Summary(r)
    \/ Total(r)

\* the answers of one or two expenses parse_message may still give
ReportBatches == {b \in AdderBatches : Len(b) <= 2}

\* messages of expenses, deletes and reports of two users, one after the other
NextReport ==
    \E r \in Reqs :
        \/ Quiet /\ StartMessage(r, Users)
        \/ Classified(r, ReportBatches)
        \/ GetCategory(r)
        \/ CreateCategory(r)
        \/ AddExpense(r)
        \/ Quiet /\ StartDelete(r, Users)
        \/ Select(r)
        \/ FlushDelete(r)
        \/ Quiet /\ StartReport(r, Users)
        \/ Summary(r)
        \/ Total(r)
        \/ Closing(r)

SpecReport == Init /\ [][NextReport]_vars

\* concurrent messages of one user, each of them one expense
NextAdders ==
    \E r \in Reqs :
        \/ Intake(r, {1}, Answers(AdderItems, 1))
        \/ Closing(r)

SpecAdders == Init /\ [][NextAdders]_vars

\* ---------------------------------------------------------------- properties
\* the ledger of a user, read off the committed tables
GivenOf(ftxs, u) == SumAmount({t \in ftxs : t.telegram_user_id = u})
SpentOf(exps, u) == SumAmount({e \in exps : e.telegram_user_id = u})

CommittedOf(r) ==
    {e.idx : e \in {x \in expenses : x.req = r}}
    \cup {t.idx : t \in {x \in foreman_transactions : x.req = r}}

\* the items of request r that the loop of handle_message records
ValidOf(r) == {k \in 1..Len(op[r].items) : Records(op[r].items[k])}

\* C2: the committed tables hold, of every message, either a record for
\* each item the loop recorded or no record at all, and a category the
\* message created only together with its records; every committed expense
\* refers to a committed category.
C2_AtomicBatch ==
    /\ \A r \in Reqs :
        /\ CommittedOf(r) = {} \/ CommittedOf(r) = ValidOf(r)
        /\ (\E c \in categories : c.by = r) => CommittedOf(r) # {}
    /\ \A e \in expenses : \E c \in categories : c.id = e.category_id

\* a message that flushed an advance, then hit the unique index on the
\* category of its second item, and left nothing behind
C2_Witness ==
    \E r \in Reqs :
        /\ pc[r] = "failed" /\ res[r].err = "IntegrityError"
        /\ Len(op[r].items) = 2 /\ op[r].items[1].type = "foreman_give"
        /\ CommittedOf(r) = {}
        /\ \E o \in Reqs \ {r} : CommittedOf(o) # {}

\* C3: the pair (total_given, total_spent) a balance read answers is the
\* pair of sums of one committed state of the ledger that existed while the
\* read was running.
C3_SingleSnapshot ==
    \A r \in Reqs :
        (pc[r] = "done" /\ res[r].balance # {}) =>
            \E b \in res[r].balance : <<b.total_given, b.total_spent>> \in hist[r].seen

\* C4: a get_or_create_category whose lookup ran while a category with the
\* same name after trimming and lower-casing was visible does not fail and
\* returns that category.
C4_IdempotentOverNormalisation ==
    \A r \in Reqs :
        hist[r].present # {} =>
            /\ res[r].err # "IntegrityError"
            /\ pc[r] # "create_category"
            /\ pc[r] = "add_expense" => loc[r].cat = hist[r].present

\* C5: a get_or_create_category whose lookup missed because no category of
\* that name existed yet never ends in the uniqueness error: the loser of
\* the race falls back to the winner's row.
C5_LoserRetriesAsLookup ==
    \A r \in Reqs : ~(res[r].err = "IntegrityError" /\ hist[r].present = {})

\* C6: no two committed categories have names that are equal after
\* trimming whitespace and ignoring case.
C6_NoDuplicateCategories ==
    \A c1, c2 \in categories : Norm(c1.name) = Norm(c2.name) => c1 = c2

\* two finished messages spelled the category differently and share its row
C6_Witness ==
    \E r1, r2 \in Reqs :
        /\ pc[r1] = "done" /\ pc[r2] = "done"
        /\ op[r1].items # <<>> /\ op[r2].items # <<>>
        /\ op[r1].items[1].category # op[r2].items[1].category
        /\ Cardinality(categories) = 1
        /\ \A e \in expenses : \E c \in categories : c.id = e.category_id
        /\ Cardinality(expenses) = 2

\* C7: every stored Expense and ForemanTransaction has an amount > 0.
C7_AmountsPositive ==
    /\ \A e \in expenses : e.amount > 0
    /\ \A t \in foreman_transactions : t.amount > 0

\* the target of an edit or delete, seen from outside the owner's scope
NoSuchExpense(id) == \A e \in expenses : e.id # id
OwnedByOther(id, u) == \E e \in expenses : e.id = id /\ e.telegram_user_id # u

\* the lookup of request r returns, for an id that is absent or another user's
LookupMisses(r, kind) ==
    /\ pc[r] = "select" /\ op[r].kind = kind
    /\ pc'[r] \notin {"select", "failed"}
    /\ NoSuchExpense(op[r].expense_id) \/ OwnedByOther(op[r].expense_id, op[r].user)

\* the answer is "not found" and nothing is or will be written
NotFoundAndUntouched(r) ==
    /\ pc'[r] = "done"
    /\ res'[r] = [NoRes EXCEPT !.outcome = "not_found"]
    /\ pend'[r] = NoPending
    /\ tables' = tables

\* C8: update_expense_amount answers "not found" alike for an id no expense
\* has and for an id whose expense another user owns, and changes no record.
C8_EditNotFoundAlike ==
    [][\A r \in Reqs : LookupMisses(r, "edit") => NotFoundAndUntouched(r)]_vars

\* an edit of another user's expense was answered "not found"
C8_Witness ==
    \E r \in Reqs :
        /\ op[r].kind = "edit" /\ pc[r] = "done" /\ res[r].outcome = "not_found"
        /\ OwnedByOther(op[r].expense_id, op[r].user)

\* C9: the commit of a delete_expense that found its row leaves no expense
\* of that id for get_by_id, and when the row is still there lowers
\* total_expenses and total_spent of the owner by exactly its amount; a
\* delete_expense by a user who does not own the expense answers false and
\* changes nothing.
C9_DeleteRemoves ==
    [][\A r \in Reqs :
        /\ (pc[r] = "commit" /\ pc'[r] = "bal_given" /\ op[r].kind = "delete") =>
              LET id == op[r].expense_id
                  u == op[r].user
                  gone == {e \in expenses : e.id = id}
              IN  /\ get_expense_by_id(expenses', id, u) = {}
                  /\ \A e \in gone :
                        /\ get_total_expenses(expenses', u)
                             = get_total_expenses(expenses, u) - e.amount
                        /\ SpentOf(expenses', u) = SpentOf(expenses, u) - e.amount
                        /\ expenses' = expenses \ {e}
        /\ LookupMisses(r, "delete") => NotFoundAndUntouched(r)]_vars

\* a delete was answered as done and the ledger of its owner is empty again
C9_Witness ==
    \E r \in Reqs :
        /\ op[r].kind = "delete" /\ pc[r] = "done" /\ res[r].outcome = "deleted"
        /\ NoSuchExpense(op[r].expense_id)
        /\ \E b \in res[r].balance : b.total_spent = 0

\* the amounts handed to add_expense by the committed messages of user u
AddedPairs(u) ==
    {<<r, k>> \in Reqs \X (1..MaxItems) :
        /\ op[r].kind = "message" /\ op[r].user = u /\ hist[r].committed
        /\ k <= Len(op[r].items)
        /\ op[r].items[k].type = "expense" /\ Records(op[r].items[k])}

RECURSIVE SumAdded(_)
SumAdded(pairs) ==
    IF pairs = {} THEN 0
    ELSE LET q == CHOOSE x \in pairs : TRUE
         IN  (CHOOSE a \in op[q[1]].items[q[2]].amount : TRUE) + SumAdded(pairs \ {q})

\* C10: with no edit and no delete, total_expenses(user) is the sum of the
\* amounts of the user's add_expense calls, and 0 for a user without any.
C10_TotalIsSumOfAdded ==
    \A u \in Users : get_total_expenses(expenses, u) = SumAdded(AddedPairs(u))

\* one user added 2 + 2 in one message and 1 in a later one, the other nothing
C10_Witness ==
    /\ get_total_expenses(expenses, 1) = 5
    /\ Cardinality(AddedPairs(1)) = 3
    /\ get_total_expenses(expenses, 2) = 0

\* concurrent messages and edits of two users, one item per message
NextEdit ==
    \E r \in Reqs :
        \/ Intake(r, Users, Answers(Items, 1))
        \/ AddForemanTransaction(r)
        \/ StartEdit(r, Users, AmountTexts)
        \/ Select(r)
        \/ FlushEdit(r)
        \/ Closing(r)

SpecEdit == Init /\ [][NextEdit]_vars

\* items of messages that advance money, with amounts of either sign
GiveItems ==
    {ParsedExpense("foreman_give", {}, {3}),
     ParsedExpense("foreman_give", {}, {-1}),
     ParsedExpense("expense", {<<"a">>}, {2})}

\* every handler that reads or writes the ledger, one item per message
NextGive ==
    \E r \in Reqs :
        \/ Intake(r, Users, Answers(GiveItems, 1))
        \/ AddForemanTransaction(r)
        \/ StartForeman(r, Users)
        \/ StartSettle(r, Users)
        \/ StartSettleReport(r, Users)
        \/ Manage(r, Users, AmountTexts)
        \/ Report(r, Users)
        \/ Closing(r)

SpecGive == InitAdvanced /\ [][NextGive]_vars

\* C11: add_expense calls of concurrent sessions for one user never wait
\* and never fail on each other (a call ends with its row flushed unless the
\* storage itself fails), the commit of each session adds exactly its own
\* amounts to total_expenses whatever was committed meanwhile, and so the
\* total is the sum of the amounts of all committed calls.
C11_NoLostUpdates ==
    /\ [](\A r \in Reqs : pc[r] = "add_expense" => ENABLED AddExpense(r))
    /\ [](get_total_expenses(expenses, 1) = SumAdded(AddedPairs(1)))
    /\ [][\A r \in Reqs :
            /\ (pc[r] = "add_expense" /\ pc'[r] # "add_expense") =>
                  \/ pc'[r] = "failed" /\ res'[r].err = "StorageError"
                  \/ /\ pend[r].exps \subseteq pend'[r].exps
                     /\ Cardinality(pend'[r].exps) = Cardinality(pend[r].exps) + 1
            /\ (pc[r] = "commit" /\ pc'[r] = "bal_given") =>
                  get_total_expenses(expenses', op[r].user)
                    = get_total_expenses(expenses, op[r].user)
                      + SumAmount(pend[r].exps)]_vars

\* two sessions of one user overlapped (the one that inserted id 2 committed
\* and read a balance without the earlier insert of id 1), both committed,
\* and the total holds both amounts
C11_Witness ==
    /\ \A r \in Reqs : pc[r] = "done" /\ res[r].outcome = "recorded"
    /\ \E e1, e2 \in expenses :
        /\ e1.id = 1 /\ e2.id = 2 /\ e1.req # e2.req
        /\ \E b \in res[e2.req].balance : b.total_spent = e2.amount
        /\ get_total_expenses(expenses, 1) = e1.amount + e2.amount

\* a message that ran to its end unless the storage failed under it
Ended(r) ==
    /\ op[r].kind = "message" /\ op[r].items # <<>>
    /\ pc[r] \in {"done", "failed"} /\ res[r].err # "StorageError"

\* the recordable items of request r of the given type
ValidOfType(r, type) == {k \in ValidOf(r) : op[r].items[k].type = type}

\* the sum of the amounts of the items ks of request r
RECURSIVE SumItems(_, _)
SumItems(r, ks) ==
    IF ks = {} THEN 0
    ELSE LET k == CHOOSE x \in ks : TRUE
         IN  (CHOOSE a \in op[r].items[k].amount : TRUE) + SumItems(r, ks \ {k})

\* the total a summary lists for a category name, 0 when it lists none
summary_total(summary, name) ==
    LET at == {k \in 1..Len(summary) : summary[k][1] = name}
    IN  IF at = {} THEN 0 ELSE summary[CHOOSE k \in at : TRUE][2]

\* C12: a message that is applied leaves exactly one record per expense
\* item with category and amount and per foreman_give item with amount and
\* none for the other items, whatever else the batch holds; its commit
\* raises total_given by the recorded advances and the summary total of
\* each category by the recorded expenses of that category.
C12_BatchRecordsValidItems ==
    /\ [](\A r \in Reqs : Ended(r) => CommittedOf(r) = ValidOf(r))
    /\ [][\A r \in Reqs :
            (pc[r] = "commit" /\ pc'[r] = "bal_given" /\ op[r].kind = "message") =>
                LET u == op[r].user
                    before == get_expenses_summary(categories, expenses, u)
                    after == get_expenses_summary(categories', expenses', u)
                IN  /\ total_given(foreman_transactions', u)
                         = total_given(foreman_transactions, u)
                           + SumItems(r, ValidOfType(r, "foreman_give"))
                    /\ \A n \in {<<"a">>, <<"b">>} :
                         summary_total(after, n) = summary_total(before, n)
                           + SumItems(r, {k \in ValidOfType(r, "expense") :
                                  Norm(CHOOSE c \in op[r].items[k].category : TRUE) = n})]_vars

\* C13: a batch with no recordable item and at least one unknown item is
\* answered "nothing understood" at once, with nothing flushed and the
\* tables as they were; that answer is given for no other batch, a batch
\* with no recordable and no unknown item gets the answer "nothing parsed",
\* and a batch with a recordable item gets neither.
C13_NothingUnderstood ==
    /\ [](\A r \in Reqs :
            (op[r].kind = "message" /\ pc[r] = "done") =>
                /\ res[r].outcome = "nothing_understood"
                     <=> (ValidOf(r) = {} /\ has_unknown(op[r].items))
                /\ res[r].outcome = "nothing_parsed"
                     <=> (ValidOf(r) = {} /\ ~has_unknown(op[r].items))
                /\ res[r].outcome = "recorded" <=> ValidOf(r) # {}
                /\ ValidOf(r) = {} =>
                     CommittedOf(r) = {} /\ ~hist[r].committed /\ res[r].balance = {})
    /\ [][\A r \in Reqs :
            (pc[r] = "classify" /\ pc'[r] # "classify" /\ pc'[r] # "failed"
             /\ ValidOf(r)' = {}) =>
                /\ pc'[r] = "done" /\ pend'[r] = NoPending
                /\ tables' = tables /\ seqs' = seqs]_vars

\* after a recorded message, a batch of an expense without amount and an
\* unknown item was answered "nothing understood" and left the ledger alone
C13_Witness ==
    \E r \in Reqs :
        /\ pc[r] = "done" /\ res[r].outcome = "nothing_understood"
        /\ Len(op[r].items) = 2 /\ op[r].items[1].type = "expense"
        /\ \E o \in Reqs \ {r} : res[o].outcome = "recorded"
        /\ \A e \in expenses : e.req # r
        /\ expenses # {}

\* what user u is shown of the tables tabs: /report, /categories, /foreman
View(tabs, u) ==
    [total |-> get_total_expenses(tabs[2], u),
     summary |-> get_expenses_summary(tabs[1], tabs[2], u),
     categories |-> get_all_categories(tabs[1], tabs[2], u),
     balance |-> get_foreman_balance(total_given(tabs[3], u), total_spent(tabs[2], u))]

\* the loop of handle_message from item k on, run on a database db that
\* only the requests of one user have written
RECURSIVE ReplayItems(_, _, _)
ReplayItems(db, r, k) ==
    IF ~db.ok \/ k > Len(op[r].items) THEN db
    ELSE LET it == op[r].items[k]
             u == op[r].user
         IN  IF ~Records(it) THEN ReplayItems(db, r, k + 1)
             ELSE IF it.type = "foreman_give"
             THEN ReplayItems(
                    [db EXCEPT !.ftxs = @ \cup
                        {ForemanTransaction(Cardinality(db.ftxs) + 1,
                                            CHOOSE a \in it.amount : TRUE, u, r, k)}],
                    r, k + 1)
             ELSE LET name == CHOOSE n \in it.category : TRUE
                      found == get_category_by_name(db.cats, name)
                      new == Category(Cardinality(db.cats) + 1, NewCategoryName(name), r)
                      cat == IF found = {} THEN new ELSE CHOOSE c \in found : TRUE
                  IN  IF \/ Cardinality(found) > 1
                         \/ found = {} /\ \E c \in db.cats : c.name = new.name
                      THEN [db EXCEPT !.ok = FALSE]
                      ELSE ReplayItems(
                             [db EXCEPT !.cats = @ \cup {cat},
                                        !.exps = @ \cup
                                 {Expense(Cardinality(db.exps) + 1, cat.id,
                                          CHOOSE a \in it.amount : TRUE, u, FALSE, r, k)}],
                             r, k + 1)

\* the message of request r handled on db: all of its records or none
ReplayMessage(db, r) ==
    LET out == ReplayItems(db, r, 1)
    IN  IF out.ok THEN out ELSE db

\* the message of request r was handled and the storage did not fail
\* before its commit
Applies(r) ==
    /\ op[r].kind = "message" /\ op[r].items # <<>>
    /\ pc[r] \in {"done", "failed"}
    /\ res[r].err = "StorageError" => hist[r].committed

\* the database after the messages 1..r of user u, had nobody else written
RECURSIVE Alone(_, _)
Alone(u, r) ==
    IF r = 0 THEN [cats |-> {}, exps |-> {}, ftxs |-> {}, ok |-> TRUE]
    ELSE LET before == Alone(u, r - 1)
         IN  IF op[r].user = u /\ Applies(r) THEN ReplayMessage(before, r) ELSE before

\* C14: whenever no handler is running, what a user is shown of the ledger
\* (total, summary by category, category listing, foreman balance) is what
\* the user would be shown had the other users sent nothing.
C14_UserIsolation ==
    Quiet =>
        \A u \in Users :
            LET alone == Alone(u, MaxReqs)
            IN  View(tables, u) = View(<<alone.cats, alone.exps, alone.ftxs>>, u)

\* the categories of tabs in which user u owns an expense
UsedBy(tabs, u) ==
    {c \in tabs[1] : \E e \in tabs[2] : e.telegram_user_id = u /\ e.category_id = c.id}

\* a summary of user u that is right for the tables tabs
RightSummary(summary, tabs, u) ==
    /\ {summary[k][1] : k \in 1..Len(summary)} = {c.name : c \in UsedBy(tabs, u)}
    /\ \A k \in 1..Len(summary) :
          summary[k][2] =
            SumAmount({e \in tabs[2] :
                /\ e.telegram_user_id = u
                /\ \E c \in tabs[1] : c.id = e.category_id /\ c.name = summary[k][1]})
    /\ \A k \in 1..(Len(summary) - 1) : NameLess(summary[k][1], summary[k + 1][1])

\* C15: summary_by_category(user) lists a category exactly when the user
\* owns an expense in it (whatever other users own, and no longer once the
\* user's last expense in it is deleted), with the sum of the user's amounts
\* in it, in ascending order of the names; /report answers that summary.
C15_SummaryOnlyOwnCategories ==
    /\ [](\A u \in Users :
            RightSummary(get_expenses_summary(categories, expenses, u), tables, u))
    /\ [][\A r \in Reqs :
            (pc[r] = "summary" /\ pc'[r] = "total") =>
                \E s \in res'[r].summary : RightSummary(s, tables, op[r].user)]_vars

\* a user without expenses was answered an empty report while another user
\* has an expense in a category
C15_Witness ==
    \E r \in Reqs :
        /\ op[r].kind = "report" /\ pc[r] = "done"
        /\ res[r].summary = {<<>>} /\ res[r].outcome = "no_expenses"
        /\ \E e \in expenses : e.telegram_user_id # op[r].user
        /\ UsedBy(tables, op[r].user) = {}

\* the classifier failed: its service raised, its text is no JSON, or an
\* entry of its JSON is not a well-formed item
ClassifierFailed(reply) ==
    reply.kind \in {"error", "text"} \/ BadAmount(reply.data) # {}

\* C16: whatever the classifier's service does, parse_message hands the
\* intake handler a non-empty list and no exception, and on a failure of the
\* classifier the list is the single unknown item.
C16_ClassifierFailureIsUnknownItem ==
    \A r \in Reqs : \A reply \in hist[r].reply :
        /\ res[r].err \notin {"APIError", "ValueError"}
        /\ op[r].items # <<>>
        /\ ClassifierFailed(reply) => op[r].items = <<ParsedExpense("unknown", {}, {})>>

\* C17: while the classification call of a request is in flight the request
\* holds no open database session with a transaction.
C17_NoSessionAcrossClassification ==
    \A r \in Reqs : pc[r] = "classify" => ~InTransaction(r)

\* C18: a stored expense has is_foreman_expense set exactly when it was
\* recorded by the settlement flow.
C18_FlagMarksSettlement ==
    \A e \in expenses :
        e.is_foreman_expense <=> (e.req \in Reqs /\ op[e.req].kind = "settle_report")

C20_ForemanTransactionsImmutable ==
    [][/\ \A t \in foreman_transactions : \E n \in foreman_transactions' :
            /\ n.id = t.id /\ n.amount = t.amount
            /\ n.telegram_user_id = t.telegram_user_id
       /\ \A u \in Users :
            total_given(foreman_transactions', u) >= total_given(foreman_transactions, u)]_vars

\* an expense and an advance
LedgerItems ==
    {ParsedExpense("expense", {<<"a">>}, {2}),
     ParsedExpense("foreman_give", {}, {3})}

\* the inline edit flow: the button, then the message with the new amount
EditFlow(r, users, texts) ==
    \/ StartEditButton(r, users)
    \/ EditButton(r)
    \/ StartNewAmount(r, users, texts)

\* concurrent requests of one user who was advanced 3: messages, /settle and
\* the report that follows it, edits and deletes
NextReply ==
    \E r \in Reqs :
        \/ Intake(r, {1}, Answers(LedgerItems, 1))
        \/ AddForemanTransaction(r)
        \/ StartSettle(r, {1})
        \/ StartSettleReport(r, {1})
        \/ Manage(r, {1}, {<<"1">>})
        \/ Closing(r)

SpecReply == InitAdvanced /\ [][NextReply]_vars

\* the handlers that commit and then answer with the balance
Writes(r) == op[r].kind \in {"message", "settle_report", "edit", "new_amount", "delete"}

\* the items of request r that its loop records
Recorded(r) ==
    IF op[r].kind = "settle_report"
    THEN {k \in 1..Len(op[r].items) : SettleRecords(op[r].items[k])}
    ELSE ValidOf(r)

\* the committed tables hold what request r wrote: a row for every item it
\* recorded, the new amount in the expense it edited, no expense of the id
\* it deleted
Reflects(r) ==
    /\ op[r].kind \in {"message", "settle_report"} =>
          \A k \in Recorded(r) :
              LET it == op[r].items[k]
                  rows == IF op[r].kind = "message" /\ it.type = "foreman_give"
                          THEN foreman_transactions ELSE expenses
              IN  \E x \in rows : /\ x.req = r /\ x.idx = k
                                   /\ x.amount \in it.amount
                                   /\ x.telegram_user_id = op[r].user
    /\ op[r].kind \in {"edit", "new_amount"} =>
          \A e \in expenses : e.id = op[r].expense_id => e.amount \in op[r].amount
    /\ op[r].kind = "delete" =>
          \A e \in expenses : e.id # op[r].expense_id

\* C21: a handler that answers an intake, a settlement report, an edit or a
\* delete with the balance reads it after its commit, with nothing of its own
\* left uncommitted: the commit puts its writes into the committed tables
\* (every record it added, the new amount of the edited expense, the deleted
\* expense gone), and total_given and total_spent of the answer are the sums
\* over the committed tables at the later moments they are read.
C21_ReplyBalanceAfterCommit ==
    /\ [](\A r \in Reqs :
            (Writes(r) /\ (pc[r] \in {"bal_given", "bal_spent"} \/ res[r].balance # {})) =>
                hist[r].committed /\ pend[r] = NoPending)
    /\ [][\A r \in Reqs : Writes(r) =>
            /\ (pc[r] = "commit" /\ pc'[r] = "bal_given") => Reflects(r)'
            /\ (pc[r] = "bal_given" /\ pc'[r] = "bal_spent") =>
                  loc'[r].given = GivenOf(foreman_transactions, op[r].user)
            /\ (pc[r] = "bal_spent" /\ pc'[r] = "done") =>
                  res'[r].balance =
                    {get_foreman_balance(loc[r].given, SpentOf(expenses, op[r].user))}]_vars

\* an expense of 2 was edited to 1 and the answer to the edit says that 1
\* of the 3 advanced is spent
C21_Witness ==
    \E r \in Reqs :
        /\ op[r].kind = "edit" /\ pc[r] = "done" /\ res[r].outcome = "updated"
        /\ res[r].balance = {[total_given |-> 3, total_spent |-> 1, outstanding |-> 2]}
        /\ \E e \in expenses : e.id = op[r].expense_id /\ e.amount = 1

\* concurrent messages of expenses in two categories, deletes and
\* /categories of two users, the first of whom was advanced 3
NextList ==
    \E r \in Reqs :
        \/ Intake(r, Users, Answers(AdderItems, 1))
        \/ StartDelete(r, Users)
        \/ Select(r)
        \/ FlushDelete(r)
        \/ StartCategories(r, Users)
        \/ Categories(r)
        \/ Closing(r)

SpecList == InitAdvanced /\ [][NextList]_vars

\* a listing of user u that is right for the tables tabs
RightListing(listing, tabs, u) ==
    /\ {listing[k] : k \in 1..Len(listing)} = {c.name : c \in UsedBy(tabs, u)}
    /\ Len(listing) = Cardinality(UsedBy(tabs, u))
    /\ \A k \in 1..(Len(listing) - 1) : NameLess(listing[k], listing[k + 1])

InitAsked ==
    /\ categories = {Category(1, <<"a">>, 0)}
    /\ expenses = {Expense(1, 1, 3, 1, FALSE, 0, 1), Expense(2, 1, 3, 1, FALSE, 0, 2)}
    /\ foreman_transactions = {ForemanTransaction(1, 3, 1, 0, 1)}
    /\ cat_seq = 2 /\ exp_seq = 3 /\ tx_seq = 2
    /\ pc = [r \in Reqs |-> "idle"]
    /\ op = [r \in Reqs |-> NoOp]
    /\ loc = [r \in Reqs |-> NoLoc]
    /\ pend = [r \in Reqs |-> NoPending]
    /\ res = [r \in Reqs |-> NoRes]
    /\ hist = [r \in Reqs |-> NoHist]
    /\ fsm = [u \in Users |->
                IF u = 1 THEN [state |-> "waiting_new_amount", edit_expense_id |-> {1}]
                ELSE NoState]

\* texts routed to process_new_amount: amounts, and a text that starts with
\* "/" and is no registered command
FlowTexts == AmountTexts \cup {<<"/", "2">>}

\* the inline edit flow among messages, /foreman, /categories and deletes,
\* handled one after the other
NextAsked ==
    \E r \in Reqs :
        \/ Quiet /\ StartEditButton(r, Users)
        \/ EditButton(r)
        \/ Quiet /\ StartNewAmount(r, Users, FlowTexts)
        \/ Quiet /\ StartDelete(r, Users)
        \/ Select(r)
        \/ FlushEdit(r)
        \/ FlushDelete(r)
        \/ Quiet /\ StartForeman(r, Users)
        \/ Quiet /\ StartCategories(r, Users)
        \/ Categories(r)
        \/ Quiet /\ StartMessage(r, Users)
        \/ Classified(r, Answers(AdderItems, 1))
        \/ GetCategory(r)
        \/ CreateCategory(r)
        \/ AddExpense(r)
        \/ Closing(r)

SpecAsked == InitAsked /\ [][NextAsked]_vars

\* request r arrives as a message whose text starts with "/" (a delete may
\* be the confirm button as well, which is no message)
SlashArrives(r) ==
    /\ pc[r] = "idle" /\ pc'[r] # "idle"
    /\ \/ op'[r].kind \in Commands \ {"delete"}
       \/ op'[r].kind = "new_amount" /\ op'[r].text # <<>> /\ Head(op'[r].text) = "/"

\* C23: a message that starts with "/" from a user who is asked for the new
\* amount of an expense, a registered command or not, ends the edit: the
\* conversation of the user is idle after it is taken in, it changes no
\* table and flushes nothing.
C23_SlashCancelsEdit ==
    [][\A r \in Reqs :
        (SlashArrives(r) /\ fsm[op'[r].user].state = "waiting_new_amount") =>
            /\ fsm'[op'[r].user] = NoState
            /\ tables' = tables /\ pend'[r] = NoPending]_vars

\* request r arrives as a message (the buttons are callback queries; a
\* delete may be the confirm button)
MessageArrives(r) ==
    /\ pc[r] = "idle" /\ pc'[r] # "idle"
    /\ op'[r].kind \notin {"delete", "edit_button"}

\* C24: /settle of a user whose conversation is idle, answered while no
\* other request commits, leaves the user asked for the settlement report
\* exactly when given - spent of the user is > 0; every message of a user
\* who is asked for the report is taken as the report, and the conversation
\* is idle from then on, whatever becomes of the report.
C24_SettleConversation ==
    [][\A r \in Reqs :
        /\ (pc[r] = "bal_spent" /\ pc'[r] = "done" /\ op[r].kind = "settle"
             /\ hist[r].quiet /\ fsm[op[r].user].state = "none") =>
                LET u == op[r].user
                    outstanding == GivenOf(foreman_transactions, u) - SpentOf(expenses, u)
                IN  /\ fsm'[u].state = "waiting_for_description" <=> outstanding > 0
                    /\ fsm'[u].state \in {"none", "waiting_for_description"}
        /\ (MessageArrives(r) /\ fsm[op'[r].user].state = "waiting_for_description") =>
                /\ op'[r].kind = "settle_report"
                /\ fsm'[op'[r].user] = NoState
        /\ (op[r].kind = "settle_report" /\ pc[r] # pc'[r]) =>
                fsm'[op[r].user] = fsm[op[r].user]]_vars

\* items of a settlement report, one of them with a category name that ends
\* in whitespace
ReportItems == SettleItems \cup {ParsedExpense("expense", {<<"a", " ">>}, {1})}

\* /settle and the report of one or two items that follows it
NextSettled ==
    \E r \in Reqs :
        \/ StartSettle(r, Users)
        \/ StartSettleReport(r, Users)
        \/ Intake(r, Users, Answers(ReportItems, 2))
        \/ AddForemanTransaction(r)
        \/ Closing(r)

SpecSettled == InitAdvanced /\ [][NextSettled]_vars

\* the expenses request r has in the committed table for its item k
ExpensesOf(r, k) == {e \in expenses : e.req = r /\ e.idx = k}

\* C25: a settlement report that was classified and did not meet a failure
\* of the storage leaves exactly one expense for each of its items that has
\* an amount, of that amount and of the reporting user, in the category the
\* item names or else the default one, and nothing for the items without
\* amount; no step of it flushes or commits a ForemanTransaction, so
\* total_given stays; a report without any amount commits nothing.
C25_SettlementCreatesExpensesOnly ==
    /\ [](\A r \in Reqs :
            (op[r].kind = "settle_report" /\ op[r].items # <<>>
             /\ pc[r] \in {"done", "failed"} /\ res[r].err # "StorageError") =>
                /\ \A k \in 1..Len(op[r].items) :
                      IF k \in Recorded(r)
                      THEN /\ Cardinality(ExpensesOf(r, k)) = 1
                           /\ \A e \in ExpensesOf(r, k) :
                                /\ e.amount \in op[r].items[k].amount
                                /\ e.telegram_user_id = op[r].user
                                /\ \E c \in categories :
                                      /\ c.id = e.category_id
                                      /\ Norm(c.name) = Norm(category_name("settle_report",
                                                                           op[r].items[k]))
                      ELSE ExpensesOf(r, k) = {}
                /\ \A t \in foreman_transactions : t.req # r
                /\ Recorded(r) = {} =>
                      ~hist[r].committed /\ res[r].outcome = "amount_not_understood")
    /\ [][\A r \in Reqs :
            (op[r].kind = "settle_report" /\ pc[r] # pc'[r]) =>
                /\ foreman_transactions' = foreman_transactions
                /\ pend'[r].ftxs = {}
                /\ total_given(foreman_transactions', op[r].user)
                     = total_given(foreman_transactions, op[r].user)]_vars

\* the state after user 1 was advanced 3 and recorded two expenses of 3 in
\* category a
InitSpent ==
    /\ categories = {Category(1, <<"a">>, 0)}
    /\ expenses = {Expense(1, 1, 3, 1, FALSE, 0, 1), Expense(2, 1, 3, 1, FALSE, 0, 2)}
    /\ foreman_transactions = {ForemanTransaction(1, 3, 1, 0, 1)}
    /\ cat_seq = 2 /\ exp_seq = 3 /\ tx_seq = 2
    /\ pc = [r \in Reqs |-> "idle"]
    /\ op = [r \in Reqs |-> NoOp]
    /\ loc = [r \in Reqs |-> NoLoc]
    /\ pend = [r \in Reqs |-> NoPending]
    /\ res = [r \in Reqs |-> NoRes]
    /\ hist = [r \in Reqs |-> NoHist]
    /\ fsm = [u \in Users |-> NoState]

\* concurrent deletes of two users
NextDelete ==
    \E r \in Reqs :
        \/ StartDelete(r, Users)
        \/ Select(r)
        \/ FlushDelete(r)
        \/ Closing(r)

SpecDelete == InitSpent /\ [][NextDelete]_vars

\* the delete requests for expense id that were answered "deleted"
ReportedDeleted(id) ==
    {r \in Reqs : /\ op[r].kind = "delete" /\ op[r].expense_id = id
                  /\ pc[r] = "done" /\ res[r].outcome = "deleted"}

\* the ids whose delete was committed by some request of their owner
CommittedDeletes ==
    {id \in 1..2 : \E r \in Reqs : /\ op[r].kind = "delete" /\ op[r].expense_id = id
                                    /\ op[r].user = 1 /\ hist[r].committed}

\* C26: of the delete requests for one expense, concurrent or one after the
\* other, at most one is answered that the expense was deleted, and the
\* owner's total_spent is lower by the amount of each deleted expense once.
C26_DeleteOnce ==
    /\ \A id \in 1..2 : Cardinality(ReportedDeleted(id)) <= 1
    /\ total_spent(expenses, 1) = 6 - 3 * Cardinality(CommittedDeletes)

\* the text is a number in digits with an optional minus sign, and its value
IsNumber(t) ==
    LET d == IF t # <<>> /\ Head(t) = "-" THEN Tail(t) ELSE t
    IN  d # <<>> /\ \A k \in 1..Len(d) : Digit(d[k]) # {}

Value(t) == IF Head(t) = "-" THEN 0 - DigitRun(Tail(t), 1, 0) ELSE DigitRun(t, 1, 0)

\* an input that is no amount: unparseable or not positive
NoAmount(t) == ~IsNumber(t) \/ Value(t) <= 0

\* the expense whose edit button user u pressed last before request r and
\* was asked for the amount of; user 1 starts with the button of expense 1
\* pressed
LastPressed(u, r) ==
    LET pressed == {q \in 1..(r - 1) : /\ op[q].kind = "edit_button" /\ op[q].user = u
                                        /\ res[q].outcome = "ask_amount"}
    IN  IF pressed = {} THEN 1
        ELSE op[CHOOSE q \in pressed : \A o \in pressed : o <= q].expense_id

\* C27: with the requests handled one after the other, a valid amount
\* entered in the inline edit flow goes to the expense whose edit button the
\* user pressed last, and its commit changes no other expense; an input
\* that is unparseable or not positive is answered as a bad amount, leaves
\* the user asked for the amount and changes nothing; when the expense is
\* gone by the time the amount is entered the answer is "not found", the
\* conversation is idle and nothing is changed.
C27_InlineEditFlow ==
    [][\A r \in Reqs :
        /\ (pc[r] = "idle" /\ pc'[r] = "select" /\ op'[r].kind = "new_amount") =>
              op'[r].expense_id = LastPressed(op'[r].user, r)
        /\ (pc[r] = "commit" /\ pc'[r] = "bal_given" /\ op[r].kind = "new_amount") =>
              \A e \in expenses : e.id # op[r].expense_id => e \in expenses'
        /\ (pc[r] = "idle" /\ pc'[r] # "idle" /\ op'[r].kind = "new_amount"
             /\ Head(op'[r].text) # "/" /\ NoAmount(op'[r].text)) =>
              /\ pc'[r] = "done" /\ res'[r].outcome = "bad_amount"
              /\ fsm' = fsm /\ tables' = tables /\ pend' = pend
        /\ (pc[r] = "select" /\ pc'[r] # "select" /\ pc'[r] # "failed"
             /\ op[r].kind = "new_amount" /\ NoSuchExpense(op[r].expense_id)) =>
              /\ NotFoundAndUntouched(r)
              /\ fsm'[op[r].user] = NoState]_vars

\* concurrent messages and balance queries of two users, and restarts of
\* the process at any moment
NextRestart ==
    \/ \E r \in Reqs :
          \/ Intake(r, Users, Answers(LedgerItems, 1))
          \/ AddForemanTransaction(r)
          \/ StartForeman(r, Users)
          \/ Closing(r)
    \/ Restart

SpecRestart == Init /\ [][NextRestart]_vars

\* C28: when the process has started again the three tables are empty,
\* whatever was committed or in flight before, so total_expenses of every
\* user is 0 and the foreman balance of every user is 0 given, 0 spent,
\* 0 outstanding; nothing a handler had flushed before the restart is
\* committed after it.
C28_StartupResets ==
    [][Restart =>
        /\ categories' = {} /\ expenses' = {} /\ foreman_transactions' = {}
        /\ \A r \in Reqs : pend'[r] = NoPending /\ ~Open(r)'
        /\ \A u \in Users :
              /\ get_total_expenses(expenses', u) = 0
              /\ get_foreman_balance(total_given(foreman_transactions', u),
                                     total_spent(expenses', u))
                   = [total_given |-> 0, total_spent |-> 0, outstanding |-> 0]]_vars

\* a message was recorded and committed, the process was started again, and
\* /foreman of the same user was answered 0 given, 0 spent
C28_Witness ==
    \E r, q \in Reqs :
        /\ op[r].kind = "message" /\ hist[r].committed /\ res[r].outcome = "recorded"
        /\ op[q].kind = "foreman" /\ op[q].user = op[r].user /\ pc[q] = "done"
        /\ res[q].balance = {[total_given |-> 0, total_spent |-> 0, outstanding |-> 0]}
        /\ categories = {} /\ expenses = {} /\ foreman_transactions = {}

\* messages, edits and deletes of two users, one handler at a time, on a
\* ledger that already holds expenses, and restarts of the process
\* a message with one expense in a category the ledger does not hold yet
OtherCategoryItems == {ParsedExpense("expense", {<<"b">>}, {1})}

NextLedger ==
    \/ \E r \in Reqs :
          \/ Quiet /\ StartMessage(r, Users)
          \/ Classified(r, Answers(OtherCategoryItems, 1))
          \/ GetCategory(r)
          \/ CreateCategory(r)
          \/ AddExpense(r)
          \/ Quiet /\ StartEdit(r, Users, {<<"2">>})
          \/ Quiet /\ StartDelete(r, Users)
          \/ Select(r)
          \/ FlushEdit(r)
          \/ FlushDelete(r)
          \/ Closing(r)
    \/ Restart

SpecLedger == InitSpent /\ [][NextLedger]_vars

RECURSIVE SumTotals(_)
SumTotals(summary) ==
    IF summary = <<>> THEN 0 ELSE Head(summary)[2] + SumTotals(Tail(summary))

====
